---- MODULE Spec2Model ----
(***************************************************************************)
(* A model of the Geppetto repository:                                     *)
(*   - IO/Gadget/ReadSubFind.py: guess_format, catalog.__init__ and        *)
(*     catalog.read_IDs (the segmented SubFind catalog reader);            *)
(*   - PLC/fullplcfiner.py: the MPI light-cone map pipeline.               *)
(* The catalog reader is checked under Spec, the pipeline under SpecPLC.   *)
(***************************************************************************)
EXTENDS Integers, Sequences, FiniteSets, TLC

(***************************************************************************)
(* Bounds of the model.                                                    *)
(***************************************************************************)
\* most segment files a catalog is written in
MaxSeg == 2
\* most groups stored in one segment
MaxGroups == 1
\* most subhalos stored in one segment
MaxSubs == 1

(***************************************************************************)
(* Program constants.                                                      *)
(***************************************************************************)
\* myformat values set by guess_format
LEGACY == 0
EXTENDED == 1
SNAPSHOT == 2
\* snap.format value of an unreadable snapshot
SnapBad == -99
\* byte offset of the file-count field probed by guess_format
LegacySeek == 12
ExtendedSeek == 20

Min(a, b) == IF a < b THEN a ELSE b
Max(a, b) == IF a < b THEN b ELSE a

RECURSIVE SumTo(_, _)
\* f[1] + ... + f[n]
SumTo(f, n) == IF n = 0 THEN 0 ELSE f[n] + SumTo(f, n - 1)

(***************************************************************************)
(* Byte order.  A 32-bit word is a number below 2^32; ndarray.byteswap()   *)
(* reverses its four bytes.  A 64-bit value is held as the pair            *)
(* <<low word, high word>> and byteswap reverses all eight bytes.          *)
(***************************************************************************)
BSwap32(x) ==
    (x % 256) * 16777216 + ((x \div 256) % 256) * 65536
      + ((x \div 65536) % 256) * 256 + (x \div 16777216)

BSwap64(p) == <<BSwap32(p[2]), BSwap32(p[1])>>

\* myswap(a, flag) on an array of 32-bit words
myswap(a, flag) == IF flag THEN [i \in DOMAIN a |-> BSwap32(a[i])] ELSE a

\* myswap(a, flag) on a 64-bit value
myswap64(p, flag) == IF flag THEN BSwap64(p) ELSE p

(***************************************************************************)
(* The files on disk.  A catalog is written in Len(seg) segments; segment  *)
(* k (from 0) is seg[k+1], a record of the counts its writer stored.  The  *)
(* writer's totals are the sums over its segments.  wswap says the writer's*)
(* byte order is the opposite of the reader's.                             *)
(***************************************************************************)
WTotNgroups(d) == SumTo([k \in 1..Len(d.seg) |-> d.seg[k].Ngroups], Len(d.seg))
WTotNsubhalos(d) == SumTo([k \in 1..Len(d.seg) |-> d.seg[k].Nsubhalos], Len(d.seg))
WTotNids(d) == SumTo([k \in 1..Len(d.seg) |-> d.seg[k].Nids], Len(d.seg))

\* a 32-bit / 64-bit value as the writer stores it
Enc32(v, wswap) == IF wswap THEN BSwap32(v) ELSE v
Enc64(v, wswap) == IF wswap THEN BSwap64(<<v, 0>>) ELSE <<v, 0>>

\* The header of segment k as 32-bit words in file order.
\* LEGACY: Ngroups, Nids, TotNgroups, Nfiles, Nsubhalos (5 int32).
\* EXTENDED: Ngroups, TotNgroups, Nids (int32), TotNids (uint64),
\*           Nfiles, Nsubhalos, TotNsubhalos (uint32).
HeaderWords(d, fmt, k) ==
    LET s == d.seg[k + 1]
        e(v) == Enc32(v, d.wswap)
        t == Enc64(WTotNids(d), d.wswap)
    IN  IF fmt = EXTENDED
        THEN <<e(s.Ngroups), e(WTotNgroups(d)), e(s.Nids), t[1], t[2],
               e(s.Nfiles), e(s.Nsubhalos), e(WTotNsubhalos(d))>>
        ELSE <<e(s.Ngroups), e(s.Nids), e(WTotNgroups(d)), e(s.Nfiles),
               e(s.Nsubhalos)>>

HeaderBytes(fmt) == IF fmt = EXTENDED THEN 32 ELSE 20

(***************************************************************************)
(* guess_format                                                            *)
(***************************************************************************)
RECURSIVE Probe(_, _)
\* n=-1; while exists: n+=1; exists=os.path.exists(fname+".%d"%n)
Probe(files, k) == IF k \in files THEN Probe(files, k + 1) ELSE k

CountFiles(files) == Probe(files, 0)

\* the 32-bit word np.fromfile reads after f.seek(off)
WordAt(words, off) == words[(off \div 4) + 1]

\* what guess_format returns: None (ok = FALSE, with the message it prints)
\* or the tuple (nfiles, myformat, swap)
GformNone(m) == [ok |-> FALSE, nfiles |-> 0, myformat |-> -1, swap |-> FALSE, msg |-> m]
Gform(n, f, s) == [ok |-> TRUE, nfiles |-> n, myformat |-> f, swap |-> s, msg |-> ""]

\* SelectFormat with the EXTENDED path probed before the LEGACY one
SelectFormatExtendedFirst(d) ==
    IF 0 \in d.files[EXTENDED] THEN EXTENDED
    ELSE IF 0 \in d.files[LEGACY] THEN LEGACY
    ELSE IF 0 \in d.files[SNAPSHOT] THEN SNAPSHOT
    ELSE -1

\* the nested os.path.exists tests on the three segment-0 paths; -1: none
SelectFormat(d) ==
    IF 0 \in d.files[LEGACY] THEN LEGACY
    ELSE IF 0 \in d.files[EXTENDED] THEN EXTENDED
    ELSE IF 0 \in d.files[SNAPSHOT] THEN SNAPSHOT
    ELSE -1

\* the count the raw file-count field of a LEGACY catalog is compared with
LegacyNativeCount(nfiles, test) == test

\* the count the raw file-count field of an EXTENDED catalog is compared with
ExtendedNativeCount(nfiles, test) == nfiles

GuessFormat(d) ==
    LET fmt == SelectFormat(d)
    IN  IF fmt = -1 THEN GformNone("Subfind files not found")
        ELSE
        LET nfiles == CountFiles(d.files[fmt])
            test == CountFiles(d.grp)
        IN  IF fmt = LEGACY
            THEN LET number == WordAt(HeaderWords(d, LEGACY, 0), LegacySeek)
                 IN  IF number = LegacyNativeCount(nfiles, test)
                     THEN Gform(nfiles, LEGACY, FALSE)
                     ELSE IF BSwap32(number) = nfiles
                     THEN Gform(nfiles, LEGACY, TRUE)
                     ELSE GformNone("I do not understand the format")
            ELSE IF fmt = EXTENDED
            THEN LET number == WordAt(HeaderWords(d, EXTENDED, 0), ExtendedSeek)
                 IN  IF number = ExtendedNativeCount(nfiles, test)
                     THEN Gform(nfiles, EXTENDED, FALSE)
                     ELSE IF BSwap32(number) = nfiles
                     THEN Gform(nfiles, EXTENDED, TRUE)
                     ELSE GformNone("I do not understand the format")
            ELSE IF d.snapFormat = SnapBad
                 THEN GformNone("I do not understand the format")
                 ELSE Gform(nfiles, SNAPSHOT, d.snapSwap)

(***************************************************************************)
(* The typed blocks of a segment body, in file order.  kind "G": one item  *)
(* per group, "S": one per subhalo; width: bytes of one item.              *)
(***************************************************************************)
Fld(n, k, w) == [name |-> n, kind |-> k, width |-> w]

Opt(flag, s) == IF flag THEN s ELSE <<>>

IdWidth(a) == IF a.long_IDs THEN 8 ELSE 4

FieldsLegacy(a) ==
    << Fld("NsubPerHalo", "G", 4), Fld("FirstSubOfHalo", "G", 4),
       Fld("SubLen", "S", 4), Fld("SubOffset", "S", 4),
       Fld("SubParentHalo", "S", 4),
       Fld("Halo_M_Mean200", "G", 4), Fld("Halo_R_Mean200", "G", 4),
       Fld("Halo_M_Crit200", "G", 4), Fld("Halo_R_Crit200", "G", 4),
       Fld("Halo_M_TopHat200", "G", 4), Fld("Halo_R_TopHat200", "G", 4),
       Fld("SubPos", "S", 12), Fld("SubVel", "S", 12),
       Fld("SubVelDisp", "S", 4), Fld("SubVmax", "S", 4),
       Fld("SubSpin", "S", 12), Fld("SubMostBoundID", "S", IdWidth(a)),
       Fld("SubHalfMass", "S", 4) >>
    \o Opt(a.SaveMassTab, << Fld("SubMassTab", "S", 24) >>)
    \o Opt(a.ConTermination, << Fld("HaloCont", "G", 4) >>)

FieldsExtended(a) ==
    << Fld("HaloLen", "G", 4), Fld("HaloMemberID", "G", 4),
       Fld("HaloMass", "G", 4), Fld("HaloPos", "G", 12),
       Fld("Halo_M_Mean200", "G", 4), Fld("Halo_R_Mean200", "G", 4),
       Fld("Halo_M_Crit200", "G", 4), Fld("Halo_R_Crit200", "G", 4),
       Fld("Halo_M_TopHat200", "G", 4), Fld("Halo_R_TopHat200", "G", 4) >>
    \o Opt(a.SOVelDisp, << Fld("VelDisp_Mean200", "G", 4),
                           Fld("VelDisp_Crit200", "G", 4),
                           Fld("VelDisp_TopHat200", "G", 4) >>)
    \o << Fld("HaloContCount", "G", 4) >>
    \o Opt(a.ConTermination, << Fld("HaloCont", "G", 4) >>)
    \o << Fld("NsubPerHalo", "G", 4), Fld("FirstSubOfHalo", "G", 4),
          Fld("SubLen", "S", 4), Fld("SubOffset", "S", 4),
          Fld("SubParentHalo", "S", 4), Fld("SubTMass", "S", 4),
          Fld("SubPos", "S", 12), Fld("SubVel", "S", 12),
          Fld("SubCM", "S", 12), Fld("SubSpin", "S", 12),
          Fld("SubVelDisp", "S", 4), Fld("SubVmax", "S", 4),
          Fld("SubVmaxRad", "S", 4), Fld("SubHalfMass", "S", 4),
          Fld("SubMostBoundID", "S", IdWidth(a)),
          Fld("SubGroupNumber", "S", 4) >>
    \o Opt(a.SaveMassTab, << Fld("SubMassTab", "S", 24) >>)

Fields(fmt, a) == IF fmt = EXTENDED THEN FieldsExtended(a) ELSE FieldsLegacy(a)

\* the arrays np.empty allocates at segment 0, with the count each is sized by
AllocList(fmt, a) ==
    << Fld("NsubPerHalo", "G", 4), Fld("FirstSubOfHalo", "G", 4),
       Fld("SubLen", "S", 4), Fld("SubOffset", "S", 4),
       Fld("SubParentHalo", "S", 4),
       Fld("Halo_M_Mean200", "G", 4), Fld("Halo_R_Mean200", "G", 4),
       Fld("Halo_M_Crit200", "G", 4), Fld("Halo_R_Crit200", "G", 4),
       Fld("Halo_M_TopHat200", "G", 4), Fld("Halo_R_TopHat200", "G", 4),
       Fld("SubPos", "S", 12), Fld("SubVel", "S", 12),
       Fld("SubVelDisp", "S", 4), Fld("SubVmax", "S", 4),
       Fld("SubSpin", "S", 12), Fld("SubMostBoundID", "S", IdWidth(a)),
       Fld("SubHalfMass", "S", 4) >>
    \o Opt(a.SaveMassTab, << Fld("SubMassTab", "S", 24) >>)
    \o Opt(a.ConTermination, << Fld("HaloCont", "G", 4) >>)
    \o Opt(fmt = EXTENDED,
           << Fld("HaloLen", "G", 4), Fld("HaloMemberID", "G", 4),
              Fld("HaloMass", "G", 4), Fld("HaloPos", "G", 12) >>
           \o Opt(a.SOVelDisp, << Fld("VelDisp_Mean200", "G", 4),
                                  Fld("VelDisp_Crit200", "G", 4),
                                  Fld("VelDisp_TopHat200", "G", 4) >>)
           \o << Fld("HaloContCount", "G", 4), Fld("SubTMass", "S", 4),
                 Fld("SubCM", "S", 12), Fld("SubVmaxRad", "S", 4),
                 Fld("SubGroupNumber", "S", 4) >>)

(***************************************************************************)
(* Reading a typed block.  An array element is <<segment, byte offset of   *)
(* the item in that segment file, bytes in reader order>>; np.empty leaves *)
(* Uninit.  Byte-swapping an item flips its byte order.                    *)
(***************************************************************************)
Uninit == <<-1, -1, FALSE>>

\* bytes of the body of segment k as its writer laid it out
BodyBytes(d, fmt, a, k) ==
    LET fs == Fields(fmt, a)
        s == d.seg[k + 1]
    IN  SumTo([i \in 1..Len(fs) |->
                 fs[i].width * (IF fs[i].kind = "G" THEN s.Ngroups ELSE s.Nsubhalos)],
              Len(fs))

FileBytes(d, fmt, a, k) == HeaderBytes(fmt) + BodyBytes(d, fmt, a, k) + d.seg[k + 1].pad

\* items np.fromfile(f, dtype, count) returns at position pos: whole items,
\* at most count, up to the end of the file
FromFile(pos, size, count, w) ==
    Min(count, IF size > pos THEN (size - pos) \div w ELSE 0)

\* myswap(block, flag) on a block of data items
myswapItems(items, flag) ==
    IF flag THEN [i \in DOMAIN items |-> <<items[i][1], items[i][2], ~items[i][3]>>]
    ELSE items

\* the count argument of np.fromfile for a block of the given kind
ReadCount(kind, TotNgroups, TotNsubhalos, Ngroups, Nsubhalos) ==
    IF kind = "G" THEN TotNgroups ELSE TotNsubhalos

\* self.X[loc] = myswap(np.fromfile(f, dtype, count), self.swap) for one field:
\* st = [pos, arr, err]; the assignment needs equal lengths, or one item
\* (broadcast), else numpy raises ValueError
ReadBlock(st, fld, d, k, size, swap, totG, totS, ng, ns, skipG, skipS) ==
    LET count == ReadCount(fld.kind, totG, totS, ng, ns)
        n == FromFile(st.pos, size, count, fld.width)
        raw == [j \in 1..n |-> <<k, st.pos + (j - 1) * fld.width, ~d.wswap>>]
        items == myswapItems(raw, swap)
        old == st.arr[fld.name]
        L == Len(old)
        lo == IF fld.kind = "G" THEN skipG ELSE skipS
        hi == IF fld.kind = "G" THEN skipG + ng ELSE skipS + ns
        lo0 == Min(lo, L)
        m == Max(0, Min(hi, L) - lo0)
        new == [i \in 1..L |->
                  IF i > lo0 /\ i <= lo0 + m
                  THEN (IF n = m THEN items[i - lo0] ELSE items[1])
                  ELSE old[i]]
    IN  IF n = m \/ n = 1
        THEN [pos |-> st.pos + n * fld.width,
              arr |-> [st.arr EXCEPT ![fld.name] = new], err |-> ""]
        ELSE [pos |-> st.pos + n * fld.width, arr |-> st.arr, err |-> "ValueError"]

RECURSIVE ReadBlocks(_, _, _, _, _, _, _, _, _, _, _, _, _, _)
\* the block reads of one segment in file order, stopping at the first error
ReadBlocks(st, fs, i, d, k, size, swap, totG, totS, ng, ns, skipG, skipS, stop) ==
    IF i > stop \/ st.err # "" THEN st
    ELSE ReadBlocks(ReadBlock(st, fs[i], d, k, size, swap, totG, totS, ng, ns, skipG, skipS),
                    fs, i + 1, d, k, size, swap, totG, totS, ng, ns, skipG, skipS, stop)

\* the count np.empty sizes an array of the given kind with
AllocCount(kind, TotNgroups, TotNsubhalos) ==
    IF kind = "G" THEN TotNgroups ELSE TotNsubhalos

\* the arrays after the allocations of segment 0
Allocate(fmt, a, totG, totS) ==
    LET al == AllocList(fmt, a)
        names == {al[i].name : i \in 1..Len(al)}
        kindOf(nm) == (CHOOSE i \in 1..Len(al) : al[i].name = nm)
    IN  [nm \in names |->
           [j \in 1..AllocCount(al[kindOf(nm)].kind, totG, totS) |-> Uninit]]

(***************************************************************************)
(* State of a catalog(basedir, snapnum, ...) call followed by read_IDs().  *)
(***************************************************************************)
VARIABLES
    disk,         \* the files: [files, grp, wswap, seg, snapFormat, snapSwap]
    args,         \* long_IDs, SaveMassTab, SOVelDisp, ConTermination
    builtinLong,  \* whether the interpreter defines the builtin long
    pc,           \* position of the caller: start, guessed, header, body,
                  \* returned (the constructor returned), raised
    gform,        \* what guess_format returned
    self,         \* the catalog object: the attributes set (has) and their values
    loc,          \* locals of __init__: fnb, skipG, skipS, the header counts, f.tell()
    raised,       \* the exception that left __init__ ("" if none)
    log,          \* warnings printed by __init__
    opened,       \* segments __init__ opened
    ids           \* the read_IDs call on the returned object: whether ID segment 0
                  \* exists, the TotNgroups each ID header reports, the exception
                  \* raised, the ID segments opened, GroupIDs and its allocations

catVars == <<disk, args, builtinLong, pc, gform, self, loc, raised, log, opened, ids>>

(***************************************************************************)
(* State of a run of PLC/fullplcfiner.py (described with its actions).     *)
(***************************************************************************)
VARIABLES
    par,     \* nparticles, size, numfiles, nshells, nreps, Npart (ts.Npart),
             \* zacc, cross
    eager,   \* whether comm.Send returns before the matching Recv (buffered)
    proc,    \* per rank: pc, snapnum, shell (i), rep (ii), ranki, npart,
             \* slice (length of the allocated slices, -1 before), Zacc
             \* (Zaccslice), aplc (aplcslice), sky (skycoordslice: the slice
             \* it holds, src, and its rows), err (the exception raised)
    chan,    \* per rank: the slices sent to rank 0 and not yet received
    deltai,  \* rank 0's histogram: the slices folded into it, in order,
             \* and the count of each pixel
    maps,    \* per shell: the field map file written by write_map
    hist     \* counts of the communication calls completed so far

plcVars == <<par, eager, proc, chan, deltai, maps, hist>>

vars == <<catVars, plcVars>>

Self0 == [has |-> {}, myformat |-> -1, swap |-> FALSE, Nfiles |-> 0,
          TotNgroups |-> 0, TotNids |-> <<0, 0>>, TotNsubhalos |-> 0, arr |-> <<>>]

Loc0 == [fnb |-> 0, skipG |-> 0, skipS |-> 0, Ngroups |-> 0, Nsubhalos |-> 0,
         Nfiles |-> 0, pos |-> 0, allocs |-> 0]

Ids0 == [called |-> FALSE, exists |-> FALSE, raised |-> "", TotNgroups |-> <<>>,
         opened |-> {}, allocs |-> 0, GroupIDs |-> <<>>]

(***************************************************************************)
(* The inputs.                                                             *)
(***************************************************************************)
DefaultArgs == [long_IDs |-> FALSE, SaveMassTab |-> TRUE, SOVelDisp |-> FALSE,
                ConTermination |-> FALSE]

\* the caller's flags; the writer is taken to have used the same
Configs ==
    { DefaultArgs,
      [long_IDs |-> TRUE, SaveMassTab |-> TRUE, SOVelDisp |-> TRUE, ConTermination |-> TRUE],
      [long_IDs |-> FALSE, SaveMassTab |-> FALSE, SOVelDisp |-> FALSE, ConTermination |-> FALSE] }

Seg(ng, ns, nf) == [Ngroups |-> ng, Nsubhalos |-> ns, Nids |-> ng + ns, Nfiles |-> nf, pad |-> 0]

Prefix(n) == 0 .. (n - 1)

NoFiles == [f \in {LEGACY, EXTENDED, SNAPSHOT} |-> {}]

\* Format discovery: any of the three catalogs present with any number of
\* its segment files, any sibling group catalog, either byte order.
DiscoveryFor(nw) ==
    { [files |-> [f \in {LEGACY, EXTENDED, SNAPSHOT} |-> Prefix(n[f])],
       grp |-> Prefix(g), wswap |-> w,
       seg |-> [k \in 1..nw |-> Seg(1, 1, nw)],
       snapFormat |-> sn[1], snapSwap |-> sn[2]] :
        n \in [{LEGACY, EXTENDED, SNAPSHOT} -> 0..nw],
        g \in 0..MaxSeg, w \in BOOLEAN,
        sn \in {<<SnapBad, FALSE>>, <<1, FALSE>>, <<1, TRUE>>} }

DiscoveryInputs == UNION { DiscoveryFor(nw) : nw \in 1..MaxSeg }

\* the counts a segment can store: subhalos belong to groups, so a segment
\* without groups has no subhalos
SegCounts == { c \in (0..MaxGroups) \X (0..MaxSubs) : c[1] = 0 => c[2] = 0 }

\* bytes that may follow the last block of segment 0
Trailing == 4

\* Catalog bodies: one LEGACY or EXTENDED catalog with all its segment files
\* and a sibling group catalog in as many files; any counts per segment; the
\* last segment's header may give another file count, and segment 0 may be
\* longer than its blocks.
BodyInputs ==
    { [files |-> [NoFiles EXCEPT ![f] = Prefix(Len(c))],
       grp |-> Prefix(Len(c)), wswap |-> w,
       seg |-> [k \in 1..Len(c) |->
                  [Seg(c[k][1], c[k][2],
                       IF bad /\ k = Len(c) /\ k > 1 THEN Len(c) + 1 ELSE Len(c))
                   EXCEPT !.pad = IF k = 1 THEN pad ELSE 0]],
       snapFormat |-> SnapBad, snapSwap |-> FALSE] :
        f \in {LEGACY, EXTENDED}, w \in BOOLEAN, bad \in BOOLEAN, pad \in {0, Trailing},
        c \in UNION { [1..nw -> SegCounts] : nw \in 1..MaxSeg } }

\* The end-to-end scenario: EXTENDED, native order, segment 0 with 3 groups
\* and 5 subhalos, segment 1 with 2 groups and 3 subhalos.
EndToEndInput ==
    [files |-> [NoFiles EXCEPT ![EXTENDED] = Prefix(2)],
     grp |-> Prefix(2), wswap |-> FALSE,
     seg |-> << Seg(3, 5, 2), Seg(2, 3, 2) >>,
     snapFormat |-> SnapBad, snapSwap |-> FALSE]

CatInit ==
    /\ \/ disk \in DiscoveryInputs /\ args = DefaultArgs
       \/ disk \in BodyInputs /\ args \in Configs
       \/ disk = EndToEndInput /\ args = DefaultArgs
    /\ builtinLong \in BOOLEAN
    /\ pc = "start"
    /\ gform = GformNone("")
    /\ self = Self0
    /\ loc = Loc0
    /\ raised = ""
    /\ log = {}
    /\ opened = {}
    /\ ids = Ids0

(***************************************************************************)
(* catalog.__init__                                                        *)
(***************************************************************************)
\* gform=guess_format(basedir,snapnum)
CallGuessFormat ==
    /\ pc = "start"
    /\ gform' = GuessFormat(disk)
    /\ pc' = "guessed"
    /\ UNCHANGED <<disk, args, builtinLong, self, loc, raised, log, opened, ids, plcVars>>

\* "if gform[1]==2" on gform = None: subscripting None raises TypeError; the
\* "if gform==None" test two statements later is never reached with None
CtorNoFormat ==
    /\ pc = "guessed"
    /\ ~gform.ok
    /\ raised' = "TypeError"
    /\ pc' = "raised"
    /\ UNCHANGED <<disk, args, builtinLong, gform, self, loc, log, opened, ids, plcVars>>

\* format 2: sets self.myformat and self.swap, prints "Please read this
\* SubFind catalog as a snapshot" and returns
CtorSnapshot ==
    /\ pc = "guessed"
    /\ gform.ok
    /\ gform.myformat = SNAPSHOT
    /\ self' = [self EXCEPT !.has = {"myformat", "swap"},
                            !.myformat = gform.myformat, !.swap = gform.swap]
    /\ pc' = "returned"
    /\ UNCHANGED <<disk, args, builtinLong, gform, loc, raised, log, opened, ids, plcVars>>

\* the attributes set before the segment loop; for myformat 0 the loop is
\* preceded by self.TotNids=long(0), a NameError where long is not defined
CtorBegin ==
    /\ pc = "guessed"
    /\ gform.ok
    /\ gform.myformat # SNAPSHOT
    /\ loc' = Loc0
    /\ IF gform.myformat = LEGACY /\ ~builtinLong
       THEN /\ self' = [self EXCEPT
                          !.has = {"snapnum", "basedir", "swap", "Nfiles", "myformat",
                                   "long_IDs", "id_format"},
                          !.swap = gform.swap, !.Nfiles = gform.nfiles,
                          !.myformat = gform.myformat]
            /\ raised' = "NameError"
            /\ pc' = "raised"
       ELSE /\ self' = [self EXCEPT
                          !.has = {"snapnum", "basedir", "swap", "Nfiles", "myformat",
                                   "long_IDs", "id_format"}
                                  \cup (IF gform.myformat = LEGACY
                                        THEN {"TotNids", "TotNsubhalos"} ELSE {}),
                          !.swap = gform.swap, !.Nfiles = gform.nfiles,
                          !.myformat = gform.myformat,
                          !.TotNids = <<0, 0>>, !.TotNsubhalos = 0]
            /\ raised' = raised
            /\ pc' = "header"
    /\ UNCHANGED <<disk, args, builtinLong, gform, log, opened, ids, plcVars>>

\* The header of segment fnb as __init__ parses it:
\* [Ngroups, TotNgroups, Nids, TotNids, Nfiles, Nsubhalos, TotNsubhalos].
\* The .byteswap() calls under "if self.swap" return new scalars that are
\* dropped, so they change nothing.
ParseHeader(d, fmt, swap, k) ==
    LET w == HeaderWords(d, fmt, k)
    IN  IF fmt = EXTENDED
        THEN LET a == myswap(<<w[1], w[2], w[3]>>, swap)
                 t == myswap64(<<w[4], w[5]>>, swap)
                 b == myswap(<<w[6], w[7], w[8]>>, swap)
             IN  [Ngroups |-> a[1], TotNgroups |-> a[2], Nids |-> a[3], TotNids |-> t,
                  Nfiles |-> b[1], Nsubhalos |-> b[2], TotNsubhalos |-> b[3]]
        ELSE LET a == myswap(w, swap)
             IN  [Ngroups |-> a[1], Nids |-> a[2], TotNgroups |-> a[3], Nfiles |-> a[4],
                  Nsubhalos |-> a[5], TotNids |-> <<0, 0>>, TotNsubhalos |-> 0]

\* the totals of self after the header of segment fnb
TotalsAfterHeader(s, h, fnb) ==
    LET acc == IF s.myformat = LEGACY
               THEN [s EXCEPT !.TotNids = <<@[1] + h.Nids, @[2]>>,
                              !.TotNsubhalos = @ + h.Nsubhalos]
               ELSE s
    IN  IF fnb # 0 THEN acc
        ELSE IF s.myformat = EXTENDED
        THEN [acc EXCEPT !.has = @ \cup {"TotNgroups", "TotNids", "TotNsubhalos"},
                         !.TotNgroups = h.TotNgroups, !.TotNids = h.TotNids,
                         !.TotNsubhalos = h.TotNsubhalos]
        ELSE [acc EXCEPT !.has = @ \cup {"TotNgroups"}, !.TotNgroups = h.TotNgroups]

\* open segment fnb, parse its header, set the totals, warn on the file
\* count, and at segment 0 allocate the arrays
ReadHeader ==
    /\ pc = "header"
    /\ LET h == ParseHeader(disk, self.myformat, self.swap, loc.fnb)
           s1 == TotalsAfterHeader(self, h, loc.fnb)
       IN  /\ opened' = opened \cup {loc.fnb}
           /\ self' = IF loc.fnb = 0
                      THEN [s1 EXCEPT !.arr = Allocate(s1.myformat, args, s1.TotNgroups,
                                                       s1.TotNsubhalos)]
                      ELSE s1
           /\ loc' = [loc EXCEPT !.Ngroups = h.Ngroups, !.Nsubhalos = h.Nsubhalos,
                                 !.Nfiles = h.Nfiles,
                                 !.pos = HeaderBytes(self.myformat),
                                 !.allocs = IF loc.fnb = 0 THEN @ + 1 ELSE @]
           /\ log' = IF h.Nfiles # gform.nfiles
                     THEN log \cup {[warning |-> "Nfiles", seg |-> loc.fnb]}
                     ELSE log
    /\ pc' = "body"
    /\ UNCHANGED <<disk, args, builtinLong, gform, raised, ids, plcVars>>

\* "if fnb==self.Nfiles: Final=True" with the count the last header gave
LoopBoundFromHeader(selfNfiles, Nfiles) == Nfiles

\* "if fnb==self.Nfiles: Final=True": the loop runs to the probed count
\* self.Nfiles, not to the Nfiles the header gave
LoopBound(selfNfiles, Nfiles) == selfNfiles

\* skipG+=Ngroups, skipS+=Nsubhalos: an offset restarted at every segment
AdvanceRestart(skip, count) == count

\* skipG+=Ngroups, skipS+=Nsubhalos
Advance(skip, count) == skip + count

\* the body of segment fnb: the block reads when Ngroups>0, then the
\* offsets, the end-of-file test, fnb+=1 and the loop test
ReadBody ==
    /\ pc = "body"
    /\ LET fs == Fields(self.myformat, args)
           size == FileBytes(disk, self.myformat, args, loc.fnb)
           st0 == [pos |-> loc.pos, arr |-> self.arr, err |-> ""]
           st == IF loc.Ngroups > 0
                 THEN ReadBlocks(st0, fs, 1, disk, loc.fnb, size, self.swap,
                                 self.TotNgroups, self.TotNsubhalos,
                                 loc.Ngroups, loc.Nsubhalos, loc.skipG, loc.skipS, Len(fs))
                 ELSE st0
       IN  /\ self' = [self EXCEPT !.arr = st.arr]
           /\ IF st.err # ""
              THEN /\ raised' = st.err
                   /\ pc' = "raised"
                   /\ loc' = [loc EXCEPT !.pos = st.pos]
                   /\ log' = log
              ELSE /\ raised' = raised
                   /\ loc' = [loc EXCEPT !.skipG = Advance(@, loc.Ngroups),
                                         !.skipS = Advance(@, loc.Nsubhalos),
                                         !.pos = st.pos, !.fnb = @ + 1]
                   /\ log' = IF st.pos # size
                             THEN log \cup {[warning |-> "EOF", seg |-> loc.fnb]}
                             ELSE log
                   /\ pc' = IF loc.fnb + 1 = LoopBound(self.Nfiles, loc.Nfiles)
                            THEN "returned" ELSE "header"
    /\ UNCHANGED <<disk, args, builtinLong, gform, opened, ids, plcVars>>

(***************************************************************************)
(* catalog.read_IDs                                                        *)
(***************************************************************************)
\* How read_IDs ends.  fname is bound only for myformat 0 and 1, so on an
\* object of format 2 open(fname+str(fnb)) raises UnboundLocalError.  Else
\* it opens ID segment 0 and parses its header with myswap(np.fromfile(...)):
\* myswap takes two arguments and is given one, a TypeError.  Every return
\* of read_IDs is by one of these exceptions; the statements after the first
\* myswap call (the consistency tests, the allocation of GroupIDs, the copy
\* of the ID blocks) are never executed.
ReadIDsOutcome(myformat, exists) ==
    IF myformat \notin {LEGACY, EXTENDED} THEN "UnboundLocalError"
    ELSE IF ~exists THEN "FileNotFoundError"
    ELSE "TypeError"

\* sub.read_IDs() on the object the constructor returned; the ID segment
\* files are read from disk at this point: whether segment 0 exists, and the
\* total-group count each ID segment header reports
ReadIDs ==
    /\ pc = "returned"
    /\ ~ids.called
    /\ \E exists \in BOOLEAN,
          tg \in [1..self.Nfiles -> {self.TotNgroups, self.TotNgroups + 1}] :
          LET out == ReadIDsOutcome(self.myformat, exists)
          IN  ids' = [ids EXCEPT !.called = TRUE, !.exists = exists, !.raised = out,
                                  !.TotNgroups = tg,
                                  !.opened = IF out = "TypeError" THEN {0} ELSE {}]
    /\ UNCHANGED <<disk, args, builtinLong, pc, gform, self, loc, raised, log, opened, plcVars>>

(***************************************************************************)
(* PLC/fullplcfiner.py: size processes run the same script.                *)
(***************************************************************************)
\* most processes of the communicator
MaxProcs == 2
\* largest params.nparticles
MaxParticles == 2
\* largest params.numfiles
MaxFiles == 2
\* most shells (entries of cosmology.zlinf)
MaxShells == 1
\* most replications inside a shell
MaxReps == 1
\* pixels of a map (params.npixels)
MaxPixels == 2

\* the value that flags a particle: aplcslice[...] = -1.0
Sentinel == -1

Ranks == 0 .. (par.size - 1)

Pixels == 0 .. (MaxPixels - 1)

\* skycoordslice before getSkyCoordinates has filled it
NoSky == [src |-> <<-1, -1, -1, -1>>, rows |-> <<>>]

Proc0 == [pc |-> "check", snapnum |-> 0, shell |-> 0, rep |-> 0, ranki |-> 0,
          npart |-> -1, slice |-> -1, Zacc |-> <<>>, aplc |-> <<>>, sky |-> NoSky,
          err |-> "", fov |-> 0, mask |-> <<>>]

Zeros == [p \in Pixels |-> 0]

NoMap == [exists |-> FALSE, folds |-> <<>>, counts |-> Zeros]

Hist0 == [bcast |-> 0, scatter |-> 0, send |-> 0, recv |-> 0, barrier |-> 0]

\* accretion redshifts of the n particles of a snapshot file: none accreted
\* (-1), all accreted at redshift 2, or every other one
ZaccProfile(kind, n) ==
    [g \in 0 .. (n - 1) |->
       IF kind = "never" THEN -1
       ELSE IF kind = "early" \/ g % 2 = 0 THEN 2 ELSE -1]

\* the particle counts a snapshot file can hold when the run has nparticles
\* particles in numfiles files: all of them, or an equal share
FileCounts(nparticles, numfiles) ==
    {nparticles} \cup ({nparticles \div numfiles} \ {0})

\* The run's inputs.  nparticles: params.nparticles, GridSize**3 of the
\* parameter file; Npart: ts.Npart, the number of particles the snapshot
\* file holds; zacc: the accretion redshift of each particle of a snapshot
\* file; cross: which particles the crossing solver finds on the light cone
\* inside a shell.
PlcInit ==
    /\ par \in UNION { { [nparticles |-> n, size |-> sz, numfiles |-> nf, nshells |-> nsh,
                          nreps |-> nr, Npart |-> np, zacc |-> ZaccProfile(za, np),
                          cross |-> cr] :
                           np \in FileCounts(n, nf), sz \in 1..MaxProcs,
                           nsh \in 1..MaxShells, nr \in 0..MaxReps,
                           za \in {"never", "early", "mixed"},
                           cr \in {"all", "none", "alternate"} } :
                       n \in 1..MaxParticles, nf \in 1..MaxFiles }
    /\ eager \in BOOLEAN
    /\ proc = [r \in 0 .. (par.size - 1) |-> Proc0]
    /\ chan = [r \in 0 .. (par.size - 1) |-> <<>>]
    /\ deltai = [set |-> FALSE, folds |-> <<>>, counts |-> Zeros]
    /\ maps = [i \in 0 .. (par.nshells - 1) |-> NoMap]
    /\ hist = Hist0

\* CannotScatter with the operands of % exchanged
CannotScatterExchanged(nparticles, size) == size % nparticles # 0

\* "if params.nparticles%size": the work balance fails
CannotScatter(nparticles, size) == nparticles % size # 0

\* comm.Abort(): MPI_Abort ends every process of the communicator
CheckAbort(r) ==
    /\ proc[r].pc = "check"
    /\ CannotScatter(par.nparticles, par.size)
    /\ proc' = [q \in Ranks |-> [proc[q] EXCEPT !.pc = "aborted"]]
    /\ UNCHANGED <<par, eager, chan, deltai, maps, hist, catVars>>

CheckPass(r) ==
    /\ proc[r].pc = "check"
    /\ ~CannotScatter(par.nparticles, par.size)
    /\ proc' = [proc EXCEPT ![r].pc = "snap"]
    /\ UNCHANGED <<par, eager, chan, deltai, maps, hist, catVars>>

\* IsCollector without the test of the rank
IsCollectorAnyRank(r) == TRUE

\* "if not rank" / "if rank == 0"
IsCollector(r) == r = 0

\* MoreSnapshots stopping one snapshot early
MoreSnapshotsButLast(snapnum, numfiles) == snapnum < numfiles - 1

\* "for snapnum in range(params.numfiles)": another snapshot file follows
MoreSnapshots(snapnum, numfiles) == snapnum < numfiles

\* "for snapnum in range(params.numfiles)": rank 0 reads the snapshot; after
\* the last snapshot rank 0 goes on to the halo pass and the others end
SnapLoop(r) ==
    /\ proc[r].pc = "snap"
    /\ proc' = [proc EXCEPT ![r].pc =
                  IF MoreSnapshots(proc[r].snapnum, par.numfiles) THEN "bcast_geometry"
                  ELSE IF IsCollector(r) THEN "halo" ELSE "done"]
    /\ UNCHANGED <<par, eager, chan, deltai, maps, hist, catVars>>

\* a collective call completes when every process has entered it
AllAt(label) == \A q \in Ranks : proc[q].pc = label

\* geometry = comm.bcast(geometry)
BcastGeometry ==
    /\ AllAt("bcast_geometry")
    /\ proc' = [q \in Ranks |-> [proc[q] EXCEPT !.pc = "bcast_npart"]]
    /\ hist' = [hist EXCEPT !.bcast = @ + 1]
    /\ UNCHANGED <<par, eager, chan, deltai, maps, catVars>>

\* npart = comm.bcast(ts.Npart)
BcastNpart ==
    /\ AllAt("bcast_npart")
    /\ proc' = [q \in Ranks |-> [proc[q] EXCEPT !.pc = "alloc", !.npart = par.Npart]]
    /\ hist' = [hist EXCEPT !.bcast = @ + 1]
    /\ UNCHANGED <<par, eager, chan, deltai, maps, catVars>>

\* the eight np.empty((npart//size, ...)) slices
AllocSlices(r) ==
    /\ proc[r].pc = "alloc"
    /\ proc' = [proc EXCEPT ![r].pc = "scatter",
                            ![r].slice = proc[r].npart \div par.size]
    /\ UNCHANGED <<par, eager, chan, deltai, maps, hist, catVars>>

\* the part of a snapshot array Scatterv delivers to rank r: the r-th of
\* size contiguous blocks of n items
ScatteredSlice(a, r, n) == [j \in 1..n |-> a[r * n + j - 1]]

\* How comm.Scatterv(ts.X, Xslice, root=0) can end.  The send buffer holds
\* npart items and every receive buffer npart//size: when size divides npart
\* each rank gets its block.  When it does not, the blocks the library
\* derives from the send buffer do not fit the receive buffers: the call
\* raises on rank 0, or it fills the receive buffers and leaves the last
\* npart - size*(npart//size) items undelivered.
ScattervOutcomes(npart, size) ==
    IF npart % size = 0 THEN {"delivered"} ELSE {"delivered", "raised"}

\* the six comm.Scatterv calls (of which Zaccslice is kept here); after an
\* exception on rank 0 the other ranks stay in a collective call that rank 0
\* never enters
Scatter ==
    /\ AllAt("scatter")
    /\ \E out \in ScattervOutcomes(proc[0].npart, par.size) :
          IF out = "delivered"
          THEN /\ proc' = [q \in Ranks |->
                             [proc[q] EXCEPT !.pc = "shell", !.shell = 0,
                                             !.Zacc = ScatteredSlice(par.zacc, q,
                                                                     proc[q].slice)]]
               /\ hist' = [hist EXCEPT !.scatter = @ + 6]
          ELSE /\ proc' = [proc EXCEPT ![0].pc = "raised", ![0].err = "ScattervError"]
               /\ hist' = hist
    /\ UNCHANGED <<par, eager, chan, deltai, maps, catVars>>

\* StartsFromZeros for every snapshot
StartsFromZerosAlways(snapnum) == TRUE

\* "if not snapnum": the shell is worked on for the first time
StartsFromZeros(snapnum) == snapnum = 0

\* "for i,(z1,z2) in enumerate(zip(zlinf, zlsup))": rank 0 starts the shell
\* from zeros at the first snapshot and from the shell's map file otherwise;
\* after the last shell the next snapshot starts
ShellLoop(r) ==
    /\ proc[r].pc = "shell"
    /\ IF proc[r].shell < par.nshells
       THEN /\ proc' = [proc EXCEPT ![r].pc = "rep", ![r].rep = 0]
            /\ deltai' = IF ~IsCollector(r) THEN deltai
                         ELSE IF StartsFromZeros(proc[r].snapnum)
                         THEN [set |-> TRUE, folds |-> <<>>, counts |-> Zeros]
                         ELSE [set |-> TRUE, folds |-> maps[proc[r].shell].folds,
                               counts |-> maps[proc[r].shell].counts]
       ELSE /\ proc' = [proc EXCEPT ![r].pc = "snap", ![r].snapnum = @ + 1]
            /\ deltai' = deltai
    /\ UNCHANGED <<par, eager, chan, maps, hist, catVars>>

(***************************************************************************)
(* Particles.  A scale factor is held by its inverse: the value v stands   *)
(* for a = 1/v, so 1.0/a - 1 is v - 1 and the sentinel a = -1.0 is v = -1. *)
(***************************************************************************)
\* 1.0/aplcslice - 1
CrossingRedshift(v) == v - 1

\* position in the snapshot arrays of item j of the slice of rank r
GlobalIndex(r, n, j) == r * n + j - 1

\* builder.getCrossingScaleParameterNewtonRaphson: the scale factor at which
\* a particle crosses the light cone inside the shell (here always 1/2), or
\* the sentinel when it has no crossing there
getCrossingScaleParameter(g, rep, cross) ==
    IF cross = "all" \/ (cross = "alternate" /\ (g + rep) % 2 = 0) THEN 2 ELSE Sentinel

\* AccretionFilter with the comparison reversed
AccretionFilterReversed(aplc, Zacc) ==
    [j \in DOMAIN aplc |-> IF CrossingRedshift(aplc[j]) > Zacc[j] THEN Sentinel ELSE aplc[j]]

\* aplcslice[ 1.0/aplcslice -1  < Zaccslice ] = -1.0
AccretionFilter(aplc, Zacc) ==
    [j \in DOMAIN aplc |-> IF CrossingRedshift(aplc[j]) < Zacc[j] THEN Sentinel ELSE aplc[j]]

\* builder.getSkyCoordinates: one row per particle, the radial distance
\* (the sentinel for a flagged particle, positive otherwise) and the
\* direction, kept as the pixel ang2pix maps it to
getSkyCoordinates(aplc, r, n) ==
    [j \in DOMAIN aplc |->
       [dist |-> IF aplc[j] = Sentinel THEN Sentinel ELSE 1,
        pix |-> GlobalIndex(r, n, j) % MaxPixels]]

\* skycoordslice of rank r for a snapshot, shell and replication
SkySlice(r, snapnum, shell, rep, n, Zacc) ==
    LET solved == [j \in 1..n |->
                     getCrossingScaleParameter(GlobalIndex(r, n, j), rep, par.cross)]
        aplc == AccretionFilter(solved, Zacc)
    IN  [src |-> <<r, snapnum, shell, rep>>, aplc |-> aplc,
         rows |-> getSkyCoordinates(aplc, r, n)]

\* "for ii, repi in enumerate(replicationsinside)": the crossing solver, the
\* accretion filter and getSkyCoordinates fill skycoordslice; after the last
\* replication rank 0 writes the shell's map
RepLoop(r) ==
    /\ proc[r].pc = "rep"
    /\ IF proc[r].rep < par.nreps
       THEN /\ LET s == SkySlice(r, proc[r].snapnum, proc[r].shell, proc[r].rep,
                                 proc[r].slice, proc[r].Zacc)
               IN  proc' = [proc EXCEPT ![r].pc = "ranki", ![r].ranki = 0,
                                        ![r].aplc = s.aplc,
                                        ![r].sky = [src |-> s.src, rows |-> s.rows]]
            /\ maps' = maps
       ELSE /\ proc' = [proc EXCEPT ![r].pc = "shell_barrier"]
            /\ maps' = IF IsCollector(r)
                       THEN [maps EXCEPT ![proc[r].shell] =
                               [exists |-> TRUE, folds |-> deltai.folds,
                                counts |-> deltai.counts]]
                       ELSE maps
    /\ UNCHANGED <<par, eager, chan, deltai, hist, catVars>>

\* RankiDone for a loop over range(size-1)
RankiDoneEarly(ranki, size) == ranki >= size - 1

\* "for ranki in range(size)" is exhausted
RankiDone(ranki, size) == ranki >= size

\* Sends without the test of ranki
SendsOwnTurn(r, ranki) == r = ranki

\* "if (rank == ranki) and ranki > 0"
Sends(r, ranki) == r = ranki /\ ranki > 0

\* Receives without the test of ranki
ReceivesAlways(r, ranki) == r = 0

\* "if rank == 0: if ranki:"
Receives(r, ranki) == r = 0 /\ ranki > 0

\* "for ranki in range(size)": rank ranki > 0 sends, rank 0 receives (or
\* works on its own load) and folds, the others go to the barrier
RankiLoop(r) ==
    /\ proc[r].pc = "ranki"
    /\ proc' = [proc EXCEPT
                  ![r].pc = IF RankiDone(proc[r].ranki, par.size) THEN "rep"
                            ELSE IF Sends(r, proc[r].ranki) THEN "send"
                            ELSE IF Receives(r, proc[r].ranki) THEN "recv"
                            ELSE IF r = 0 THEN "fold"
                            ELSE "barrier",
                  ![r].rep = IF RankiDone(proc[r].ranki, par.size) THEN @ + 1 ELSE @]
    /\ UNCHANGED <<par, eager, chan, deltai, maps, hist, catVars>>

Positive(row) == row.dist > 0

\* Message with the rows of positive distance only
MessageCut(sky) == [sky EXCEPT !.rows = SelectSeq(sky.rows, Positive)]

\* the buffer comm.Send(skycoordslice, dest=0) transmits
Message(sky) == sky

\* comm.Send(skycoordslice, dest=0): returns at once when buffered, else
\* when rank 0 has received the message
Send(r) ==
    /\ proc[r].pc = "send"
    /\ chan' = [chan EXCEPT ![r] = Append(@, Message(proc[r].sky))]
    /\ proc' = [proc EXCEPT ![r].pc = IF eager THEN "barrier" ELSE "sendwait"]
    /\ hist' = [hist EXCEPT !.send = @ + 1]
    /\ UNCHANGED <<par, eager, deltai, maps, catVars>>

SendDone(r) ==
    /\ proc[r].pc = "sendwait"
    /\ chan[r] = <<>>
    /\ proc' = [proc EXCEPT ![r].pc = "barrier"]
    /\ UNCHANGED <<par, eager, chan, deltai, maps, hist, catVars>>

\* comm.Recv(skycoordslice, source=ranki) on rank 0
Recv ==
    /\ proc[0].pc = "recv"
    /\ chan[proc[0].ranki] # <<>>
    /\ proc' = [proc EXCEPT ![0].pc = "fold", ![0].sky = Head(chan[proc[0].ranki])]
    /\ chan' = [chan EXCEPT ![proc[0].ranki] = Tail(@)]
    /\ hist' = [hist EXCEPT !.recv = @ + 1]
    /\ UNCHANGED <<par, eager, deltai, maps, catVars>>

\* cut = skycoordslice[:,0] > 0; np.histogram(ang2pix(...[cut]), bins)[0]
Histogram(rows) ==
    [p \in Pixels |-> Cardinality({j \in DOMAIN rows : Positive(rows[j]) /\ rows[j].pix = p})]

\* rank 0: the cut, ang2pix and "deltai += np.histogram(...)"
Fold ==
    /\ proc[0].pc = "fold"
    /\ deltai' = [deltai EXCEPT
                    !.folds = Append(@, proc[0].sky.src),
                    !.counts = [p \in Pixels |-> @[p] + Histogram(proc[0].sky.rows)[p]]]
    /\ proc' = [proc EXCEPT ![0].pc = "barrier"]
    /\ UNCHANGED <<par, eager, chan, maps, hist, catVars>>

\* comm.Barrier() closing an iteration of the ranki loop
Barrier ==
    /\ AllAt("barrier")
    /\ proc' = [q \in Ranks |-> [proc[q] EXCEPT !.pc = "ranki", !.ranki = @ + 1]]
    /\ hist' = [hist EXCEPT !.barrier = @ + 1]
    /\ UNCHANGED <<par, eager, chan, deltai, maps, catVars>>

\* comm.Barrier() closing a shell
ShellBarrier ==
    /\ AllAt("shell_barrier")
    /\ proc' = [q \in Ranks |-> [proc[q] EXCEPT !.pc = "shell", !.shell = @ + 1]]
    /\ hist' = [hist EXCEPT !.barrier = @ + 1]
    /\ UNCHANGED <<par, eager, chan, deltai, maps, catVars>>

\* np.linspace(0,params.npixels,params.npixels+1).astype(bool): the values
\* 0, 1, .., npixels as booleans, entry k of the sequence standing for the
\* value k-1; only the value 0 becomes False
LinspaceAsBool(npixels) == [k \in 1 .. (npixels + 1) |-> (k - 1) # 0]

\* rank 0 after the snapshots: the mask of the halo/convergence pass, for a
\* params.fovindeg below 180 or not.  Below 180 degrees hp.pix2ang(...)
\* returns the tuple (theta, phi) and "[:,0]" on a tuple raises TypeError, so
\* no mask is built; otherwise the mask is the linspace as booleans.
HaloMask ==
    /\ proc[0].pc = "halo"
    /\ \E fovindeg \in {90, 180} :
          proc' = IF fovindeg < 180
                  THEN [proc EXCEPT ![0].pc = "failed", ![0].err = "TypeError",
                                    ![0].fov = fovindeg]
                  ELSE [proc EXCEPT ![0].pc = "halo_shell", ![0].fov = fovindeg,
                                    ![0].mask = LinspaceAsBool(MaxPixels)]
    /\ UNCHANGED <<par, eager, chan, deltai, maps, hist, catVars>>

\* a boolean index must have the length of the array it indexes, else
\* numpy raises IndexError
BooleanIndexFits(mask, npixels) == Len(mask) = npixels

\* the first shell of the halo pass up to "deltahi[mask] = hp.UNSEEN", the
\* first use of the mask, on a map of npixels entries; it comes before the
\* first write_map and read_map of the pass.  What follows a mask that fits
\* (the normalisation and the writes of the shell loop) is not described
\* further.
HaloShell ==
    /\ proc[0].pc = "halo_shell"
    /\ proc' = IF BooleanIndexFits(proc[0].mask, MaxPixels)
               THEN [proc EXCEPT ![0].pc = "halo_done"]
               ELSE [proc EXCEPT ![0].pc = "failed", ![0].err = "IndexError"]
    /\ UNCHANGED <<par, eager, chan, deltai, maps, hist, catVars>>

(***************************************************************************)
(* The specifications.  Spec: one catalog is opened and its IDs are read.  *)
(* SpecPLC: one run of the pipeline.  Each leaves the other part idle.     *)
(***************************************************************************)
PlcIdle ==
    /\ par = [nparticles |-> 1, size |-> 1, numfiles |-> 1, nshells |-> 1,
              nreps |-> 0, Npart |-> 1, zacc |-> [g \in {0} |-> -1], cross |-> "none"]
    /\ eager = TRUE
    /\ proc = [r \in {0} |-> Proc0]
    /\ chan = [r \in {0} |-> <<>>]
    /\ deltai = [set |-> FALSE, folds |-> <<>>, counts |-> Zeros]
    /\ maps = [i \in {0} |-> NoMap]
    /\ hist = Hist0

CatIdle ==
    /\ disk = EndToEndInput
    /\ args = DefaultArgs
    /\ builtinLong = FALSE
    /\ pc = "idle"
    /\ gform = GformNone("")
    /\ self = Self0
    /\ loc = Loc0
    /\ raised = ""
    /\ log = {}
    /\ opened = {}
    /\ ids = Ids0

Init == CatInit /\ PlcIdle

Next ==
    \/ CallGuessFormat
    \/ CtorNoFormat
    \/ CtorSnapshot
    \/ CtorBegin
    \/ ReadHeader
    \/ ReadBody
    \/ ReadIDs

Spec == Init /\ [][Next]_vars

InitPLC == PlcInit /\ CatIdle

NextPLC ==
    \/ \E r \in Ranks : CheckAbort(r)
    \/ \E r \in Ranks : CheckPass(r)
    \/ \E r \in Ranks : SnapLoop(r)
    \/ BcastGeometry
    \/ BcastNpart
    \/ \E r \in Ranks : AllocSlices(r)
    \/ Scatter
    \/ \E r \in Ranks : ShellLoop(r)
    \/ \E r \in Ranks : RepLoop(r)
    \/ \E r \in Ranks : RankiLoop(r)
    \/ \E r \in Ranks : Send(r)
    \/ \E r \in Ranks : SendDone(r)
    \/ Recv
    \/ Fold
    \/ Barrier
    \/ ShellBarrier
    \/ HaloMask
    \/ HaloShell

SpecPLC == InitPLC /\ [][NextPLC]_vars

\* the pipeline with processes that keep running: a step that can be taken
\* is eventually taken
SpecPLCLive == SpecPLC /\ WF_vars(NextPLC)

(***************************************************************************)
(* What the writer stored, for comparison with what the reader returns.    *)
(***************************************************************************)
\* items of a block of the given kind in segment record s
StoredCount(s, kind) == IF kind = "G" THEN s.Ngroups ELSE s.Nsubhalos

\* byte offset in segment k of the i-th block of the body
StoredOffset(d, fmt, a, k, i) ==
    LET fs == Fields(fmt, a)
    IN  HeaderBytes(fmt)
          + SumTo([j \in 1..Len(fs) |->
                     IF j < i THEN fs[j].width * StoredCount(d.seg[k + 1], fs[j].kind)
                     ELSE 0], Len(fs))

\* the i-th block of segment k, every item in the reader's byte order
StoredBlock(d, fmt, a, k, i) ==
    LET fs == Fields(fmt, a)
    IN  [j \in 1..StoredCount(d.seg[k + 1], fs[i].kind) |->
           <<k, StoredOffset(d, fmt, a, k, i) + (j - 1) * fs[i].width, TRUE>>]

RECURSIVE StoredArray(_, _, _, _, _)
\* the i-th blocks of segments 0 .. n-1, concatenated in segment order
StoredArray(d, fmt, a, i, n) ==
    IF n = 0 THEN <<>>
    ELSE StoredArray(d, fmt, a, i, n - 1) \o StoredBlock(d, fmt, a, n - 1, i)

\* the constructor call is over
CtorDone == pc \in {"returned", "raised"}

\* the disk holds a complete catalog of format f: all its segment files, each
\* header giving the true file count
ValidCatalog(f) ==
    /\ f \in {LEGACY, EXTENDED}
    /\ SelectFormat(disk) = f
    /\ disk.files[f] = Prefix(Len(disk.seg))
    /\ \A k \in 1..Len(disk.seg) : disk.seg[k].Nfiles = Len(disk.seg)

(***************************************************************************)
(* C1: for the EXTENDED, native-order catalog of two segments (3 groups    *)
(* and 5 subhalos, then 2 groups and 3 subhalos) the constructor completes *)
(* with TotNgroups = 5 and TotNsubhalos = 8, per-group arrays of length 5, *)
(* per-subhalo arrays of length 8, and every array equal to the            *)
(* concatenation in segment order of the blocks stored in the two segments.*)
(***************************************************************************)
C1_EndToEnd ==
    (disk = EndToEndInput /\ CtorDone) =>
        /\ pc = "returned"
        /\ self.TotNgroups = 5
        /\ self.TotNsubhalos = 8
        /\ LET fs == Fields(EXTENDED, args)
           IN  \A i \in 1..Len(fs) :
                 /\ fs[i].name \in DOMAIN self.arr
                 /\ Len(self.arr[fs[i].name]) = (IF fs[i].kind = "G" THEN 5 ELSE 8)
                 /\ self.arr[fs[i].name] = StoredArray(disk, EXTENDED, args, i, 2)

(***************************************************************************)
(* C2: whenever guess_format discovers a catalog of any of the three       *)
(* formats, the constructor returns a fully populated object: the          *)
(* aggregate counts are set and every per-group and per-subhalo array is   *)
(* allocated and filled.                                                   *)
(***************************************************************************)
Populated ==
    /\ {"TotNgroups", "TotNsubhalos", "TotNids"} \subseteq self.has
    /\ LET al == AllocList(IF self.myformat = EXTENDED THEN EXTENDED ELSE LEGACY, args)
       IN  \A i \in 1..Len(al) :
             /\ al[i].name \in DOMAIN self.arr
             /\ \A j \in DOMAIN self.arr[al[i].name] : self.arr[al[i].name][j] # Uninit

C2_FullyPopulated ==
    (gform.ok /\ CtorDone) => (pc = "returned" /\ Populated)

(***************************************************************************)
(* C3: guess_format selects the first of LEGACY, EXTENDED, SNAPSHOT whose  *)
(* segment-0 file exists, whatever combination of the three exists, and    *)
(* when none exists it returns the not-found failure and no format.        *)
(***************************************************************************)
FirstExisting ==
    IF 0 \in disk.files[LEGACY] THEN LEGACY
    ELSE IF 0 \in disk.files[EXTENDED] THEN EXTENDED
    ELSE IF 0 \in disk.files[SNAPSHOT] THEN SNAPSHOT
    ELSE -1

C3_FormatPriority ==
    pc \notin {"start", "idle"} =>
        /\ gform.ok => gform.myformat = FirstExisting
        /\ (FirstExisting = -1) <=> (~gform.ok /\ gform.msg = "Subfind files not found")

\* guess_format has run where the LEGACY file is absent and both the EXTENDED
\* and the SNAPSHOT files exist, and it selected EXTENDED
C3_Witness ==
    /\ pc = "guessed"
    /\ 0 \notin disk.files[LEGACY]
    /\ 0 \in disk.files[EXTENDED]
    /\ 0 \in disk.files[SNAPSHOT]
    /\ gform.ok
    /\ gform.myformat = EXTENDED

(***************************************************************************)
(* C4: when format discovery fails (no candidate path, or a file-count     *)
(* field matching neither byte order) the constructor ends with the        *)
(* corresponding format fault reported to the caller, returns no object,   *)
(* partial or otherwise, and opens no segment file.                        *)
(***************************************************************************)
FormatFault(g) ==
    IF g.msg = "Subfind files not found" THEN "FormatNotFoundError"
    ELSE "UnrecognizedFormatError"

C4_FormatFaultReported ==
    (CtorDone /\ ~gform.ok) =>
        /\ pc = "raised"
        /\ raised = FormatFault(gform)
        /\ self.has = {}
        /\ opened = {}

(***************************************************************************)
(* C5: for LEGACY and EXTENDED alike the byte order is decided by          *)
(* comparing the file-count field of segment 0 with the number of segment  *)
(* files found by probing the catalog's own path: raw value equal gives    *)
(* native order, byte-swapped value equal gives swapped order, neither     *)
(* gives the unrecognized-format failure; the file count of the sibling    *)
(* group catalog has no influence.                                         *)
(***************************************************************************)
C5_ByteOrderDecision ==
    (pc \notin {"start", "idle"} /\ FirstExisting \in {LEGACY, EXTENDED}) =>
        LET fmt == FirstExisting
            nfiles == CountFiles(disk.files[fmt])
            number == WordAt(HeaderWords(disk, fmt, 0),
                             IF fmt = LEGACY THEN LegacySeek ELSE ExtendedSeek)
        IN  gform = IF number = nfiles THEN Gform(nfiles, fmt, FALSE)
                    ELSE IF BSwap32(number) = nfiles THEN Gform(nfiles, fmt, TRUE)
                    ELSE GformNone("I do not understand the format")

(***************************************************************************)
(* C6: endianness symmetry.  For every valid segment set, the byte-swapped *)
(* copy is read with swap = True and the original with swap = False, and   *)
(* both give the same header counts, totals and array contents: the totals *)
(* the writer stored, and every item read in the reader's byte order       *)
(* (swapped exactly once when the writer's order is the opposite, never    *)
(* otherwise).                                                             *)
(***************************************************************************)
C6_EndiannessSymmetry ==
    (CtorDone /\ \E f \in {LEGACY, EXTENDED} : ValidCatalog(f)) =>
        LET original == GuessFormat([disk EXCEPT !.wswap = FALSE])
            copy == GuessFormat([disk EXCEPT !.wswap = TRUE])
        IN  /\ original.ok /\ ~original.swap
            /\ copy.ok /\ copy.swap
            /\ copy.nfiles = original.nfiles /\ copy.myformat = original.myformat
            /\ "swap" \in self.has /\ self.swap = disk.wswap
            /\ "TotNgroups" \in self.has => self.TotNgroups = WTotNgroups(disk)
            /\ 0 \in opened => /\ loc.Ngroups = disk.seg[Min(loc.fnb, Len(disk.seg) - 1) + 1].Ngroups
                               /\ loc.Nfiles = Len(disk.seg)
            /\ \A nm \in DOMAIN self.arr : \A j \in DOMAIN self.arr[nm] :
                 self.arr[nm][j] # Uninit => self.arr[nm][j][3]

(***************************************************************************)
(* C7: if an ID segment reports a total-group count different from the     *)
(* catalog's TotNgroups, read_IDs signals the catalog-inconsistency fault  *)
(* and leaves no GroupIDs array holding IDs of earlier segments.           *)
(***************************************************************************)
IDsReadable == ids.called /\ ids.exists /\ self.myformat \in {LEGACY, EXTENDED}

C7_InconsistencyFault ==
    (IDsReadable /\ \E k \in DOMAIN ids.TotNgroups : ids.TotNgroups[k] # self.TotNgroups) =>
        /\ ids.raised = "CatalogInconsistencyError"
        /\ ids.GroupIDs = <<>>

(***************************************************************************)
(* C8: on a LEGACY or EXTENDED catalog whose ID segments are consistent    *)
(* with it, read_IDs completes, allocates GroupIDs once with length        *)
(* TotNids, and GroupIDs is the concatenation in segment order of the      *)
(* segments' byte-order-corrected ID blocks (the window of a segment       *)
(* starts at the sum of the ID counts of the earlier segments).            *)
(***************************************************************************)
\* bytes of the header of an ID segment
IDHeaderBytes(fmt) == IF fmt = EXTENDED THEN 32 ELSE 16

RECURSIVE StoredIDs(_, _, _, _)
\* the ID blocks of segments 0 .. n-1, concatenated in segment order
StoredIDs(d, fmt, a, n) ==
    IF n = 0 THEN <<>>
    ELSE StoredIDs(d, fmt, a, n - 1)
           \o [j \in 1..d.seg[n].Nids |->
                 <<n - 1, IDHeaderBytes(fmt) + (j - 1) * IdWidth(a), TRUE>>]

C8_GroupIDsConcatenated ==
    (IDsReadable /\ \A k \in DOMAIN ids.TotNgroups : ids.TotNgroups[k] = self.TotNgroups) =>
        /\ ids.raised = ""
        /\ ids.allocs = 1
        /\ Len(ids.GroupIDs) = self.TotNids[1]
        /\ ids.GroupIDs = StoredIDs(disk, self.myformat, args, Len(disk.seg))

(***************************************************************************)
(* C9: for LEGACY and EXTENDED and any number of segments, the aggregate   *)
(* arrays are allocated once, at segment 0, per-group arrays with the      *)
(* catalog-wide total of groups and per-subhalo arrays with the            *)
(* catalog-wide total of subhalos (the sum over all segments), and keep    *)
(* those lengths.                                                          *)
(***************************************************************************)
C9_AllocatedWithTotals ==
    (loc.allocs > 0 /\ ValidCatalog(self.myformat)) =>
        /\ loc.allocs = 1
        /\ 0 \in opened
        /\ LET al == AllocList(self.myformat, args)
           IN  \A i \in 1..Len(al) :
                 Len(self.arr[al[i].name])
                   = (IF al[i].kind = "G" THEN WTotNgroups(disk) ELSE WTotNsubhalos(disk))

(***************************************************************************)
(* C10: if params.nparticles is not a multiple of the number of processes, *)
(* every process aborts before any broadcast, scatter, send, receive or    *)
(* barrier is executed and before any slice is allocated.                  *)
(***************************************************************************)
C10_AbortBeforeCommunication ==
    (pc = "idle" /\ par.nparticles % par.size # 0) =>
        /\ \A r \in Ranks : proc[r].pc \in {"check", "aborted"} /\ proc[r].slice = -1
        /\ (\E r \in Ranks : proc[r].pc = "aborted") => \A r \in Ranks : proc[r].pc = "aborted"
        /\ hist = Hist0
        /\ \A r \in Ranks : chan[r] = <<>>

\* a run of several processes among which the particles cannot be divided
\* has been aborted
C10_Witness ==
    /\ pc = "idle"
    /\ par.size > 1
    /\ par.nparticles % par.size # 0
    /\ \A r \in Ranks : proc[r].pc = "aborted"

(***************************************************************************)
(* What a shell's histogram should hold, for comparison with what the      *)
(* pipeline accumulates.                                                   *)
(***************************************************************************)
\* the slices of shell i in the order snapshot, replication, rank, for the
\* first nsnaps snapshot files
ExpectedFolds(i, nsnaps) ==
    [k \in 1 .. (nsnaps * par.nreps * par.size) |->
       << (k - 1) % par.size, (k - 1) \div (par.nreps * par.size), i,
          ((k - 1) \div par.size) % par.nreps >>]

\* the pixel counts of the slice src = <<rank, snapshot, shell, replication>>
Contribution(src) ==
    LET n == par.Npart \div par.size
    IN  Histogram(SkySlice(src[1], src[2], src[3], src[4], n,
                           ScatteredSlice(par.zacc, src[1], n)).rows)

RECURSIVE SumOfContributions(_, _)
\* the sum of the pixel counts of the first n slices of f
SumOfContributions(f, n) ==
    IF n = 0 THEN Zeros
    ELSE [p \in Pixels |-> SumOfContributions(f, n - 1)[p] + Contribution(f[n])[p]]

\* the particle pass is over on rank 0
ParticlePassOver == proc[0].pc \in {"halo", "halo_shell", "halo_done", "failed"}

(***************************************************************************)
(* C11: for every shell the collector starts from zeros only at snapshot 0 *)
(* and from the histogram it wrote for the shell at the preceding snapshot *)
(* otherwise, so that after the last snapshot the stored histogram of each *)
(* shell is the sum of the pixel counts of all snapshots, replications and *)
(* workers.                                                                *)
(***************************************************************************)
C11_AccumulatesAcrossSnapshots ==
    /\ (proc[0].pc = "rep" /\ proc[0].rep = 0) =>
          LET before == ExpectedFolds(proc[0].shell, proc[0].snapnum)
          IN  /\ deltai.folds = before
              /\ deltai.counts = SumOfContributions(before, Len(before))
              /\ proc[0].snapnum = 0 => deltai.counts = Zeros
    /\ ParticlePassOver =>
          \A i \in DOMAIN maps :
             LET all == ExpectedFolds(i, par.numfiles)
             IN  /\ maps[i].exists
                 /\ maps[i].folds = all
                 /\ maps[i].counts = SumOfContributions(all, Len(all))

\* after a run of two processes over two snapshot files the map of shell 0
\* holds counts
C11_Witness ==
    /\ ParticlePassOver
    /\ par.size = 2 /\ par.numfiles = 2 /\ par.nreps > 0
    /\ maps[0].counts # Zeros
    /\ Len(maps[0].folds) = 4 * par.nreps

(***************************************************************************)
(* C12: only the collector (rank 0) holds, updates, reads or writes a      *)
(* shell's running histogram and its map file: every step that changes the *)
(* histogram or a map file is a step of rank 0 and of no other process.    *)
(***************************************************************************)
C12_OnlyCollectorOwnsHistogram ==
    [][ (deltai' # deltai \/ maps' # maps) =>
           /\ proc'[0] # proc[0]
           /\ \A r \in Ranks \ {0} : proc'[r] = proc[r] ]_vars

\* in a run of two processes the worker has sent a slice and the map of
\* shell 0 has been written with both slices folded
C12_Witness ==
    /\ par.size = 2
    /\ hist.send > 0
    /\ maps[0].exists
    /\ Len(maps[0].folds) >= 2

(***************************************************************************)
(* C13: a particle whose accretion redshift is higher than its crossing    *)
(* redshift (1/a - 1 < Zacc) gets the sentinel as crossing scale factor    *)
(* before the sky coordinates are computed and adds nothing to the shell's *)
(* histogram; a particle the solver already flagged stays flagged.         *)
(***************************************************************************)
\* rank r holds the slices of its current replication
HoldsReplication(r) ==
    proc[r].pc \in {"ranki", "send", "sendwait", "recv", "fold", "barrier"}

\* the solver's result for item j of rank r in its current replication
Solved(r, j) ==
    getCrossingScaleParameter(GlobalIndex(r, proc[r].slice, j), proc[r].rep, par.cross)

\* particle g crosses inside the shell in replication rep, after it accreted
Counted(g, rep) ==
    LET v == getCrossingScaleParameter(g, rep, par.cross)
    IN  v # Sentinel /\ ~(v - 1 < par.zacc[g])

\* the particles of slice src that are counted in pixel p
CountedIn(src, p) ==
    LET n == par.Npart \div par.size
    IN  Cardinality({j \in 1..n : /\ Counted(GlobalIndex(src[1], n, j), src[4])
                                  /\ GlobalIndex(src[1], n, j) % MaxPixels = p})

RECURSIVE SumOfCounted(_, _, _)
SumOfCounted(f, n, p) ==
    IF n = 0 THEN 0 ELSE SumOfCounted(f, n - 1, p) + CountedIn(f[n], p)

C13_AccretionFilter ==
    /\ \A r \in Ranks : HoldsReplication(r) =>
          \A j \in 1..proc[r].slice :
             /\ (Solved(r, j) - 1 < proc[r].Zacc[j]) => proc[r].aplc[j] = Sentinel
             /\ Solved(r, j) = Sentinel => proc[r].aplc[j] = Sentinel
             /\ ~(Solved(r, j) - 1 < proc[r].Zacc[j]) => proc[r].aplc[j] = Solved(r, j)
             /\ (proc[r].sky.src[1] = r /\ proc[r].aplc[j] = Sentinel)
                   => ~Positive(proc[r].sky.rows[j])
    /\ \A p \in Pixels : deltai.counts[p] = SumOfCounted(deltai.folds, Len(deltai.folds), p)

\* rank 0 has folded its own slice, in which the solver found a crossing for
\* a particle that the accretion filter flagged
C13_Witness ==
    /\ proc[0].pc = "barrier"
    /\ proc[0].ranki = 0
    /\ \E j \in 1..proc[0].slice :
          /\ Solved(0, j) # Sentinel
          /\ proc[0].aplc[j] = Sentinel
          /\ ~Positive(proc[0].sky.rows[j])
    /\ \E j \in 1..proc[0].slice : Positive(proc[0].sky.rows[j])

(***************************************************************************)
(* C14: when the reader has finished segment k, skipG is the sum of the    *)
(* group counts and skipS the sum of the subhalo counts of segments 0..k,  *)
(* also when a segment has no groups, and the elements the segment wrote   *)
(* are those of the slice from the offset before to the offset after.      *)
(***************************************************************************)
\* sum of the group counts the segments 0..k store
GroupsUpTo(k) == SumTo([i \in 1..(k + 1) |-> disk.seg[i].Ngroups], k + 1)

\* sum of the subhalo counts the segments 0..k store
SubhalosUpTo(k) == SumTo([i \in 1..(k + 1) |-> disk.seg[i].Nsubhalos], k + 1)

\* the kind ("G" per group, "S" per subhalo) of the array called nm
KindOf(nm) ==
    LET al == AllocList(self.myformat, args)
    IN  al[CHOOSE i \in 1..Len(al) : al[i].name = nm].kind

\* the step that finishes segment loc.fnb without an exception
FinishesSegment == pc = "body" /\ pc' \in {"header", "returned"}

C15_AllSegmentsProcessed ==
    (CtorDone /\ gform.ok /\ gform.myformat \in {LEGACY, EXTENDED}) =>
        /\ opened = Prefix(gform.nfiles)
        /\ loc.fnb = gform.nfiles

\* the same on the catalogs whose constructor returns: kept as a check that
\* the loop test itself counts the segments
C15_WhenReturned ==
    (pc = "returned" /\ gform.ok /\ gform.myformat \in {LEGACY, EXTENDED}) =>
        /\ opened = Prefix(gform.nfiles)
        /\ loc.fnb = gform.nfiles

(***************************************************************************)
(* C16: neither warning stops the read.  The step that logs that a header  *)
(* gives another file count than was probed raises nothing and goes on to  *)
(* the blocks of that segment; the step that reads the blocks of a warned  *)
(* segment, or that logs that the file is not finished, raises nothing,    *)
(* leaves the slices of the earlier segments as they were, advances the    *)
(* offsets by the segment's counts and goes on to the next segment, or     *)
(* returns after the last one.                                             *)
(***************************************************************************)
NfilesWarning(k) == [warning |-> "Nfiles", seg |-> k]

EOFWarning(k) == [warning |-> "EOF", seg |-> k]

C16_WarningsNotFatal ==
    [][ /\ (pc = "header" /\ log' # log) =>
              /\ log' = log \cup {NfilesWarning(loc.fnb)}
              /\ raised' = ""
              /\ pc' = "body"
              /\ loc'.skipG = loc.skipG /\ loc'.skipS = loc.skipS
              /\ loc.fnb > 0 => self'.arr = self.arr
        /\ (pc = "body" /\ (log' # log \/ NfilesWarning(loc.fnb) \in log)) =>
              /\ log' \in {log, log \cup {EOFWarning(loc.fnb)}}
              /\ raised' = ""
              /\ loc'.fnb = loc.fnb + 1
              /\ pc' = IF loc.fnb + 1 = gform.nfiles THEN "returned" ELSE "header"
              /\ loc'.skipG = loc.skipG + disk.seg[loc.fnb + 1].Ngroups
              /\ loc'.skipS = loc.skipS + disk.seg[loc.fnb + 1].Nsubhalos
              /\ \A nm \in DOMAIN self.arr :
                    \A i \in 1..Len(self.arr[nm]) :
                       i <= (IF KindOf(nm) = "G" THEN loc.skipG ELSE loc.skipS)
                          => self'.arr[nm][i] = self.arr[nm][i] ]_vars

\* the constructor has returned from a catalog of two segments after both
\* warnings: segment 0, which holds the group, was not at its end after its
\* blocks, and the header of segment 1 gave another file count
C16_Witness ==
    /\ pc = "returned"
    /\ loc.fnb = 2
    /\ loc.skipG = 1
    /\ EOFWarning(0) \in log
    /\ NfilesWarning(1) \in log

\* the same for the steps in which no block read raises: kept as a check
\* that the warnings themselves change nothing in the read
C16_WarningAlone ==
    [][ /\ (pc = "header" /\ log' # log) =>
              /\ log' = log \cup {NfilesWarning(loc.fnb)}
              /\ raised' = ""
              /\ pc' = "body"
              /\ loc'.skipG = loc.skipG /\ loc'.skipS = loc.skipS
              /\ loc.fnb > 0 => self'.arr = self.arr
        /\ (pc = "body" /\ raised' = "" /\ (log' # log \/ NfilesWarning(loc.fnb) \in log)) =>
              /\ log' \in {log, log \cup {EOFWarning(loc.fnb)}}
              /\ loc'.fnb = loc.fnb + 1
              /\ pc' = IF loc.fnb + 1 = gform.nfiles THEN "returned" ELSE "header"
              /\ loc'.skipG = loc.skipG + disk.seg[loc.fnb + 1].Ngroups
              /\ loc'.skipS = loc.skipS + disk.seg[loc.fnb + 1].Nsubhalos
              /\ \A nm \in DOMAIN self.arr :
                    \A i \in 1..Len(self.arr[nm]) :
                       i <= (IF KindOf(nm) = "G" THEN loc.skipG ELSE loc.skipS)
                          => self'.arr[nm][i] = self.arr[nm][i] ]_vars

(***************************************************************************)
(* C17: the collector folds the slices of a replication in rank order, its *)
(* own first and then those of workers 1 .. size-1, each in the iteration  *)
(* of the ranki loop in which the worker sends it; when a process is past  *)
(* replication r (at replication r+1, or at the end of the shell) every    *)
(* slice of replication r has been folded.                                 *)
(***************************************************************************)
\* rank q is inside the replication loop of a shell
InShell(q) == HoldsReplication(q) \/ proc[q].pc \in {"rep", "shell_barrier"}

\* the slices of its shell folded before the point rank q has reached:
\* those of the earlier snapshots and replications, and those of the ranks
\* below ranki in its current replication
FoldedBefore(q) ==
    proc[q].snapnum * par.nreps * par.size
    + proc[q].rep * par.size
    + (IF HoldsReplication(q) THEN proc[q].ranki ELSE 0)

\* the slice rank q holds in its current replication
CurrentSlice(q) == <<q, proc[q].snapnum, proc[q].shell, proc[q].rep>>

IsFolded(src) == \E k \in 1..Len(deltai.folds) : deltai.folds[k] = src

InIteration(q) == proc[q].pc \in {"send", "sendwait", "recv", "fold", "barrier"}

\* every process is past the barrier that closes the last shell of the last
\* snapshot file
PastFinalBarrier ==
    /\ proc[0].pc \in {"halo", "halo_shell", "halo_done", "failed"}
    /\ \A q \in Ranks \ {0} : proc[q].pc = "done"

LockStep ==
    /\ \A q, r \in Ranks :
          /\ (InIteration(q) /\ InIteration(r)) =>
                /\ proc[q].snapnum = proc[r].snapnum
                /\ proc[q].shell = proc[r].shell
                /\ proc[q].rep = proc[r].rep
                /\ proc[q].ranki = proc[r].ranki
          /\ (proc[q].pc = "shell_barrier" /\ proc[r].pc = "shell_barrier") =>
                /\ proc[q].snapnum = proc[r].snapnum
                /\ proc[q].shell = proc[r].shell
          /\ (proc[q].pc \in {"bcast_npart", "alloc", "scatter"}
                /\ proc[r].pc \in {"bcast_npart", "alloc", "scatter"}) =>
                proc[q].snapnum = proc[r].snapnum
    /\ \A q \in Ranks :
          chan[q] # <<>> =>
             /\ q > 0
             /\ Len(chan[q]) = 1
             /\ proc[q].pc \in {"sendwait", "barrier"}
             /\ proc[q].ranki = q
             /\ proc[0].ranki = q
             /\ proc[0].pc \in {"ranki", "recv"}
             /\ proc[0].rep = proc[q].rep
    /\ hist.recv <= hist.send
    /\ hist.send <= hist.recv + 1
    /\ AllAt("barrier") => hist.send = hist.recv
    /\ AllAt("shell_barrier") => hist.send = hist.recv

C18_LockStepNoDeadlock ==
    /\ []LockStep
    /\ ~CannotScatter(par.nparticles, par.size) ~> PastFinalBarrier

\* a run of two processes is past the last barrier, a slice having been
\* sent and received
C18_Witness ==
    /\ PastFinalBarrier
    /\ par.size = 2
    /\ hist.send > 0 /\ hist.recv = hist.send
    /\ hist.barrier > 1

(***************************************************************************)
(* C19 as claimed: a message from a worker to the collector holds only the *)
(* sky coordinates of particles that passed the accretion filter and have  *)
(* a positive distance; no flagged row is transmitted.                     *)
(***************************************************************************)
C19_OnlyPositiveSent ==
    \A q \in Ranks : \A k \in 1..Len(chan[q]) :
       \A j \in 1..Len(chan[q][k].rows) : Positive(chan[q][k].rows[j])

(***************************************************************************)
(* C19 amended: a message from a worker to the collector is the worker's   *)
(* whole skycoordslice, npart//size rows with the flagged rows among them; *)
(* the collector cuts the rows of positive distance out of what it         *)
(* received, so that a flagged row adds nothing to the histogram.          *)
(***************************************************************************)
C19_WholeSliceSent ==
    /\ \A q \in Ranks : \A k \in 1..Len(chan[q]) :
          /\ chan[q][k] = proc[q].sky
          /\ chan[q][k].src = CurrentSlice(q)
          /\ Len(chan[q][k].rows) = proc[q].npart \div par.size
          /\ \A j \in 1..Len(chan[q][k].rows) :
                Positive(chan[q][k].rows[j]) <=> proc[q].aplc[j] # Sentinel
    /\ proc[0].pc = "fold" =>
          /\ Len(proc[0].sky.rows) = proc[0].npart \div par.size
          /\ \A p \in Pixels :
                Histogram(proc[0].sky.rows)[p] = CountedIn(proc[0].sky.src, p)

\* a message in flight from worker 1 holds the row of a particle that the
\* solver found crossing and the accretion filter flagged
C19_Witness ==
    /\ par.size = 2
    /\ chan[1] # <<>>
    /\ \E j \in 1..Len(chan[1][1].rows) :
          /\ ~Positive(chan[1][1].rows[j])
          /\ Solved(1, j) # Sentinel

(***************************************************************************)
(* C20: the halo/convergence pass runs on rank 0 only and starts after the *)
(* particle pass is over: when it starts, every snapshot file has been     *)
(* worked through, the map file of every shell holds the counts of all     *)
(* snapshots, replications and ranks, nothing is in flight, and every      *)
(* other rank is past the last barrier and never enters the pass.          *)
(***************************************************************************)
InHaloPass(q) == proc[q].pc \in {"halo", "halo_shell", "halo_done", "failed"}

\* the counts the map of shell i holds once every slice has been folded
FinalCounts(i) ==
    LET all == ExpectedFolds(i, par.numfiles)
    IN  [p \in Pixels |-> SumOfCounted(all, Len(all), p)]

C20_HaloPassAfterParticles ==
    /\ \A q \in Ranks \ {0} : ~InHaloPass(q)
    /\ InHaloPass(0) =>
          /\ proc[0].snapnum = par.numfiles
          /\ \A i \in DOMAIN maps :
                /\ maps[i].exists
                /\ Len(maps[i].folds) = par.numfiles * par.nreps * par.size
                /\ maps[i].counts = FinalCounts(i)
          /\ \A q \in Ranks \ {0} :
                /\ \/ proc[q].pc \in {"snap", "done"} /\ proc[q].snapnum = par.numfiles
                   \/ /\ proc[q].pc = "shell"
                      /\ proc[q].shell = par.nshells
                      /\ proc[q].snapnum = par.numfiles - 1
                /\ chan[q] = <<>>

\* rank 0 has run the halo pass after two snapshot files shared with a
\* worker, which has ended
C20_Witness ==
    /\ proc[0].pc = "failed"
    /\ par.size = 2 /\ par.numfiles = 2 /\ par.nreps > 0
    /\ proc[1].pc = "done"
    /\ maps[0].exists

(***************************************************************************)
(* C21: for each shell and replication the slice of every process is       *)
(* folded into the shell's histogram exactly once.  No slice is folded     *)
(* twice; the slices of the iterations rank 0 has completed are each       *)
(* folded once and those of the iterations to come are not folded; rank 0  *)
(* has folded its own slice by the time a receive has overwritten its      *)
(* buffer; and the map written for a shell holds every slice once.         *)
(***************************************************************************)
\* how many times the slice src was folded into the sequence f
Occurrences(f, src) == Cardinality({k \in 1..Len(f) : f[k] = src})

\* rank 0 has completed the fold of rank q's slice of replication rp of its
\* current snapshot and shell
FoldCompleted(q, rp) ==
    \/ rp < proc[0].rep
    \/ /\ rp = proc[0].rep
       /\ HoldsReplication(0)
       /\ \/ q < proc[0].ranki
          \/ q = proc[0].ranki /\ proc[0].pc = "barrier"

C21_FoldedExactlyOnce ==
    /\ \A k1, k2 \in 1..Len(deltai.folds) :
          deltai.folds[k1] = deltai.folds[k2] => k1 = k2
    /\ InShell(0) =>
          \A q \in Ranks : \A rp \in 0 .. (par.nreps - 1) :
             /\ Occurrences(deltai.folds, <<q, proc[0].snapnum, proc[0].shell, rp>>)
                   = (IF FoldCompleted(q, rp) THEN 1 ELSE 0)
             /\ \A s \in 0 .. (proc[0].snapnum - 1) :
                   Occurrences(deltai.folds, <<q, s, proc[0].shell, rp>>) = 1
    /\ (HoldsReplication(0) /\ proc[0].sky.src # CurrentSlice(0)) =>
          /\ IsFolded(CurrentSlice(0))
          /\ proc[0].ranki > 0
    /\ ParticlePassOver =>
          \A i \in DOMAIN maps : \A q \in Ranks :
             \A s \in 0 .. (par.numfiles - 1) : \A rp \in 0 .. (par.nreps - 1) :
                Occurrences(maps[i].folds, <<q, s, i, rp>>) = 1

\* rank 0 is about to fold the slice it received from worker 1 into a
\* histogram that holds its own slice
C21_Witness ==
    /\ par.size = 2
    /\ proc[0].pc = "fold"
    /\ proc[0].sky.src = CurrentSlice(1)
    /\ Occurrences(deltai.folds, CurrentSlice(0)) = 1
    /\ Occurrences(deltai.folds, CurrentSlice(1)) = 0

(***************************************************************************)
(* C22: for every snapshot file that is scattered, the slice length times  *)
(* the number of processes is the broadcast Npart, and the slices, of      *)
(* equal size and contiguous, together hold every particle of the file.    *)
(***************************************************************************)
\* the particles of the snapshot file that the slices of the ranks hold
ParticlesInSlices ==
    UNION { {GlobalIndex(q, proc[q].slice, j) : j \in 1..proc[q].slice} : q \in Ranks }

\* every rank has allocated its slices for the snapshot file
SlicesAllocated == \A q \in Ranks : proc[q].slice >= 0

\* every rank has received its slices of the snapshot file
SlicesScattered == \A q \in Ranks : Len(proc[q].Zacc) = proc[q].slice

C22_SlicesCoverSnapshot ==
    /\ \A q \in Ranks :
          proc[q].slice >= 0 =>
             /\ proc[q].npart = par.Npart
             /\ proc[q].slice * par.size = proc[q].npart
    /\ (SlicesAllocated /\ SlicesScattered) =>
          /\ ParticlesInSlices = 0 .. (par.Npart - 1)
          /\ \A q \in Ranks : \A j \in 1..proc[q].slice :
                proc[q].Zacc[j] = par.zacc[GlobalIndex(q, proc[q].slice, j)]

\* the same when the number of processes divides the particle count of the
\* snapshot file: kept as a check that the partition itself is by equal
\* contiguous blocks
C22_WhenDivisible ==
    par.Npart % par.size = 0 => C22_SlicesCoverSnapshot

\* C18 for the runs in which the number of processes also divides the
\* particle count of the snapshot file: kept as a check that the sends,
\* receives and barriers themselves leave no process waiting
C18_WhenPartitionExact ==
    /\ []LockStep
    /\ (~CannotScatter(par.nparticles, par.size) /\ par.Npart % par.size = 0)
          ~> PastFinalBarrier

(***************************************************************************)
(* C23: the field-of-view mask of the halo/convergence pass has one        *)
(* boolean entry per map pixel, npixels in all, and masks no pixel when    *)
(* the field of view is 180 degrees or more.                               *)
(***************************************************************************)
\* the halo pass has built its mask
MaskConstructed == InHaloPass(0) /\ proc[0].mask # <<>>

C23_MaskPerPixel ==
    MaskConstructed =>
       /\ Len(proc[0].mask) = MaxPixels
       /\ proc[0].fov >= 180 => \A k \in 1..Len(proc[0].mask) : ~proc[0].mask[k]

====
